---- MODULE Spec2Model ----
(***************************************************************************)
(* ndarray-utils: ranking / discretization (rank.rs), finite-value         *)
(* counting and filling (floats.rs) and pairwise minimum / maximum         *)
(* (pairwise.rs), modelled as operators over small dense containers and as *)
(* a state machine whose actions are the library's entry points.           *)
(*                                                                         *)
(* A container is a record [shape, data]: shape is the tuple of extents,   *)
(* data maps every 0-based multi-index of that shape to an element.        *)
(* Elements are integers; three reserved codes stand for the floating      *)
(* point values NaN, +infinity and -infinity.                              *)
(***************************************************************************)
EXTENDS Integers, Sequences, FiniteSets

VARIABLES self, other, ret

vars == <<self, other, ret>>

----------------------------------------------------------------------------
(* Bounds of the model.                                                    *)

\* Largest number of elements of a container handed to rank.rs / floats.rs.
MaxElems == 4
\* Largest length of the two vectors handed to pairwise.rs.
MaxPairLen == 2
\* Finite element values are 0..MaxVal.
MaxVal == 1
\* Requested bucket counts are 1..MaxBuckets.
MaxBuckets == 4

----------------------------------------------------------------------------
(* Element type: f64 values and their partial order.                       *)

NaN == 999
PosInf == 100
NegInf == -100

\* A::default() of a numeric element type.
Default == 0

Finite == 0..MaxVal

\* PartialOrd::partial_cmp: None exactly when an operand is NaN.
partial_cmp(x, y) ==
    IF x = NaN \/ y = NaN THEN "None"
    ELSE IF x < y THEN "Less"
    ELSE IF x = y THEN "Equal"
    ELSE "Greater"

\* The operators <, > and == of PartialOrd / PartialEq.
Lt(x, y) == partial_cmp(x, y) = "Less"
Gt(x, y) == partial_cmp(x, y) = "Greater"
Eq(x, y) == partial_cmp(x, y) = "Equal"

\* Float::is_finite: neither NaN nor an infinity.
is_finite(x) == x \notin {NaN, PosInf, NegInf}

----------------------------------------------------------------------------
(* The array abstraction (ndarray): indices, iteration order, views.       *)

Indices(shape) ==
    IF Len(shape) = 1
    THEN {<<i>> : i \in 0..(shape[1] - 1)}
    ELSE {<<i, j>> : i \in 0..(shape[1] - 1), j \in 0..(shape[2] - 1)}

\* indexed_iter: the multi-indices in row-major order.
indexed_iter(c) ==
    IF Len(c.shape) = 1
    THEN [k \in 1..c.shape[1] |-> <<k - 1>>]
    ELSE [k \in 1..(c.shape[1] * c.shape[2]) |->
             <<(k - 1) \div c.shape[2], (k - 1) % c.shape[2]>>]

ones(shape) == [shape |-> shape, data |-> [idx \in Indices(shape) |-> 1]]

\* Array::zeros(dim)
zeros(shape) == [shape |-> shape, data |-> [idx \in Indices(shape) |-> 0]]

\* len_of(axis) of a 2-D container; axes are 0 and 1.
len_of(c, axis) == c.shape[axis + 1]

\* index_axis(axis, i): the 1-D view fixing coordinate i along axis.
index_axis(c, axis, i) ==
    LET n == c.shape[2 - axis]
    IN [shape |-> <<n>>,
        data  |-> [idx \in Indices(<<n>>) |->
                      IF axis = 0 THEN c.data[<<i, idx[1]>>]
                                  ELSE c.data[<<idx[1], i>>]]]

\* axis_iter(axis): the views index_axis(axis, 0), index_axis(axis, 1), ...
axis_iter(c, axis) == [k \in 1..len_of(c, axis) |-> index_axis(c, axis, k - 1)]

\* The coordinate of a 2-D index along axis, and its coordinate in the view.
Along(idx, axis) == idx[axis + 1]
Across(idx, axis) == idx[2 - axis]

\* sub.assign_to(c.index_axis_mut(axis, i)) for every i: views is the
\* sequence of 1-D results, one per coordinate along axis.
assign_views(c, axis, views) ==
    [c EXCEPT !.data = [idx \in DOMAIN @ |->
        views[Along(idx, axis) + 1].data[<<Across(idx, axis)>>]]]

Front(s) == SubSeq(s, 1, Len(s) - 1)
Last(s) == s[Len(s)]

----------------------------------------------------------------------------
(* rank.rs: RankExt::rank                                                  *)

RankMethod == {"Minimum", "Maximum", "Average"}

\* The first loop of rank: the (index, element) pairs of the elements that
\* compare against A::default(), in iteration order.
index_and_value(c) ==
    LET kept == SelectSeq(indexed_iter(c),
                    LAMBDA idx : partial_cmp(c.data[idx], Default) # "None")
    IN [k \in 1..Len(kept) |-> <<kept[k], c.data[kept[k]]>>]

RECURSIVE sort_insert(_, _)
sort_insert(sorted, p) ==
    IF Len(sorted) = 0 \/ ~Gt(Last(sorted)[2], p[2])
    THEN Append(sorted, p)
    ELSE Append(sort_insert(Front(sorted), p), Last(sorted))

\* sort_unstable_by(|a, b| a.1.partial_cmp(b.1).unwrap()): ascending by the
\* element.  The order among equal elements is unspecified by the sort; the
\* ranks do not read it (a run of equal elements is assigned as a whole).
RECURSIVE sort_unstable_by(_)
sort_unstable_by(pairs) ==
    IF Len(pairs) = 0 THEN <<>>
    ELSE sort_insert(sort_unstable_by(Front(pairs)), Last(pairs))

\* The inner while: the position after the run of elements equal to
\* current_value that starts at index (positions are 0-based).
RECURSIVE run_end(_, _, _)
run_end(iv, index, current_value) ==
    IF index < Len(iv) /\ Eq(iv[index + 1][2], current_value)
    THEN run_end(iv, index + 1, current_value)
    ELSE index

assign_rank_average_of_size(method, rank, index, start_index) ==
    CASE method = "Minimum" -> rank
      [] method = "Maximum" -> rank + index - start_index - 1
      [] method = "Average" -> rank + (index - start_index) \div 2

\* The match on method.
assign_rank(method, rank, index, start_index) ==
    CASE method = "Minimum" -> rank
      [] method = "Maximum" -> rank + index - start_index - 1
      [] method = "Average" -> rank + (index - start_index - 1) \div 2

\* The outer while, from position index with the running counter rank.
RECURSIVE rank_loop(_, _, _, _, _)
rank_loop(iv, method, rank, index, ranks) ==
    IF index < Len(iv)
    THEN LET start_index == index
             current_value == iv[index + 1][2]
             next == run_end(iv, index, current_value)
             assigned == assign_rank(method, rank, next, start_index)
             keys == {iv[k + 1][1] : k \in start_index..(next - 1)}
         IN rank_loop(iv, method, rank + next - start_index, next,
                [ranks EXCEPT !.data = [idx \in DOMAIN @ |->
                    IF idx \in keys THEN assigned ELSE @[idx]]])
    ELSE ranks

rank(c, method) ==
    rank_loop(sort_unstable_by(index_and_value(c)), method, 1, 0, zeros(c.shape))

----------------------------------------------------------------------------
(* rank.rs: RankExt::discretize                                            *)

\* A call either returns a value or panics.
Ok(v) == [ok |-> TRUE, value |-> v]
Panic == [ok |-> FALSE]

\* ranks.iter().reduce(max) of a non-empty array.
max_rank(ranks) ==
    CHOOSE m \in {ranks.data[idx] : idx \in DOMAIN ranks.data} :
        \A idx \in DOMAIN ranks.data : ranks.data[idx] <= m

\* The shadowing let: <<buckets, ranks_per_bucket>> used from there on.
effective(max, buckets) ==
    LET ranks_per_bucket == max \div buckets
    IN IF ranks_per_bucket = 0 THEN <<max, 1>> ELSE <<buckets, ranks_per_bucket>>

remainder_of_requested(max, requested, buckets) == max % requested

\* let remainder = *max_rank % buckets, where buckets is the shadowed
\* (effective) count; requested is the parameter the caller passed.
remainder(max, requested, buckets) == max % buckets

\* One of the two for loops: count times, push low_rank and advance it by
\* width.  Returns <<rank_cut_points, low_rank>>.
RECURSIVE push_cuts(_, _, _, _)
push_cuts(cuts, low_rank, count, width) ==
    IF count <= 0 THEN <<cuts, low_rank>>
    ELSE push_cuts(Append(cuts, low_rank), low_rank + width, count - 1, width)

\* rank_cut_points after both loops; buckets is the effective count (> 0).
rank_cut_points(max, requested, buckets, ranks_per_bucket) ==
    LET rem == remainder(max, requested, buckets)
        first == push_cuts(<<>>, 1, rem, ranks_per_bucket + 1)
    IN push_cuts(first[1], first[2], buckets - rem, ranks_per_bucket)[1]

RECURSIVE bucket_of_strict(_, _)
bucket_of_strict(x, cuts) ==
    IF Len(cuts) > 0 /\ x > cuts[1] THEN 1 + bucket_of_strict(x, Tail(cuts)) ELSE 0

\* The closure's loop over the cut points, with its break.
RECURSIVE bucket_of(_, _)
bucket_of(x, cuts) ==
    IF Len(cuts) > 0 /\ x >= cuts[1] THEN 1 + bucket_of(x, Tail(cuts)) ELSE 0

\* ranks.map_inplace(...)
map_buckets(ranks, cuts) ==
    [ranks EXCEPT !.data = [idx \in DOMAIN @ |->
        IF @[idx] = 0 THEN 0 ELSE bucket_of(@[idx], cuts)]]

\* The cut points discretize builds for ranks; <<>> when it builds none
\* (reduce gave None, or the remainder's division panicked first).
cuts_built(ranks, buckets) ==
    IF DOMAIN ranks.data = {} THEN <<>>
    ELSE LET max == max_rank(ranks)
             eff == effective(max, buckets)
         IN IF eff[1] = 0 THEN <<>>
            ELSE rank_cut_points(max, buckets, eff[1], eff[2])

\* buckets >= 1 is the caller's precondition.  max % 0 panics in Rust
\* ("attempt to calculate the remainder with a divisor of zero").
discretize(c, method, buckets) ==
    LET ranks == rank(c, method)
    IN IF DOMAIN ranks.data = {} THEN Ok(ranks)
       ELSE IF effective(max_rank(ranks), buckets)[1] = 0 THEN Panic
       ELSE Ok(map_buckets(ranks, cuts_built(ranks, buckets)))

----------------------------------------------------------------------------
(* rank.rs: RankAxisExt                                                    *)

rank_axis_whole(c, axis, method) == rank(c, method)

rank_axis(c, axis, method) ==
    LET views == axis_iter(c, axis)
    IN assign_views(zeros(c.shape), axis,
           [k \in 1..Len(views) |-> rank(views[k], method)])

\* A panic in one slice's discretize unwinds the whole call.
discretize_axis(c, axis, method, buckets) ==
    LET views == axis_iter(c, axis)
        each == [k \in 1..Len(views) |-> discretize(views[k], method, buckets)]
    IN IF \E k \in 1..Len(views) : ~each[k].ok THEN Panic
       ELSE Ok(assign_views(zeros(c.shape), axis,
                   [k \in 1..Len(views) |-> each[k].value]))

----------------------------------------------------------------------------
(* floats.rs                                                               *)

fill_everything(c, with) == [c EXCEPT !.data = [idx \in DOMAIN @ |-> with]]

fill_non_finite_inplace(c, with) ==
    [c EXCEPT !.data = [idx \in DOMAIN @ |->
        IF ~is_finite(@[idx]) THEN with ELSE @[idx]]]

\* self.fold(0, |a, b| a + f(b)) over the elements in iteration order.
RECURSIVE fold_count(_, _, _, _)
fold_count(c, order, k, isFinite) ==
    IF k = 0 THEN 0
    ELSE fold_count(c, order, k - 1, isFinite)
         + (IF is_finite(c.data[order[k]]) = isFinite THEN 1 ELSE 0)

count_finite(c) == fold_count(c, indexed_iter(c), Len(indexed_iter(c)), TRUE)

count_non_finite(c) == fold_count(c, indexed_iter(c), Len(indexed_iter(c)), FALSE)

\* axis_iter(axis).map(f).collect() into a 1-D array.
collect_counts(counts) ==
    [shape |-> <<Len(counts)>>,
     data  |-> [idx \in Indices(<<Len(counts)>>) |-> counts[idx[1] + 1]]]

count_finite_axis_removed(c, axis) ==
    collect_counts([k \in 1..len_of(c, 1 - axis) |->
                       count_finite(index_axis(c, 1 - axis, k - 1))])

count_finite_axis(c, axis) ==
    LET views == axis_iter(c, axis)
    IN collect_counts([k \in 1..Len(views) |-> count_finite(views[k])])

count_non_finite_axis(c, axis) ==
    LET views == axis_iter(c, axis)
    IN collect_counts([k \in 1..Len(views) |-> count_non_finite(views[k])])

----------------------------------------------------------------------------
(* pairwise.rs                                                             *)

maximum_with_inplace_le(a, b) ==
    [a EXCEPT !.data = [i \in DOMAIN @ |->
        IF ~Gt(@[i], b.data[i]) THEN b.data[i] ELSE @[i]]]

maximum_with_inplace(a, b) ==
    [a EXCEPT !.data = [i \in DOMAIN @ |->
        IF Lt(@[i], b.data[i]) THEN b.data[i] ELSE @[i]]]

minimum_with_inplace(a, b) ==
    [a EXCEPT !.data = [i \in DOMAIN @ |->
        IF Gt(@[i], b.data[i]) THEN b.data[i] ELSE @[i]]]

\* self.to_owned(), then the in-place form on the copy.
maximum_with(a, b) == maximum_with_inplace(a, b)

minimum_with(a, b) == minimum_with_inplace(a, b)

----------------------------------------------------------------------------
(* The library as a state machine: self is the receiver of a call, other   *)
(* the second array of a pairwise call, ret the record of the last call    *)
(* (its arguments, the receiver before it, and what it returned).          *)

Shapes2D(maxElems) ==
    {sh \in (0..maxElems) \X (1..maxElems) : sh[1] * sh[2] <= maxElems}

Containers(shapes, values) ==
    UNION {[shape : {sh}, data : [Indices(sh) -> values]] : sh \in shapes}

RankValues == Finite \cup {NaN}
FloatValues == Finite \cup {NaN, PosInf, NegInf}
Axes == {0, 1}
Buckets == 1..MaxBuckets

NoCall == [op |-> "none"]

\* Every rank.rs entry point borrows self immutably and keeps no state, so a
\* second call starts from the state of the first: one call per behaviour
\* of SpecRank covers them all.
Fresh == ret = NoCall

InitRank ==
    /\ self \in Containers(Shapes2D(MaxElems), RankValues)
    /\ other = zeros(<<0, 1>>)
    /\ ret = NoCall

InitFloats ==
    /\ self \in Containers(Shapes2D(MaxElems), FloatValues)
    /\ other = zeros(<<0, 1>>)
    /\ ret = NoCall

InitPairwise ==
    /\ self \in Containers({<<1, n>> : n \in 1..MaxPairLen}, RankValues)
    /\ other \in Containers({self.shape}, RankValues)
    /\ ret = NoCall

Rank(method) ==
    /\ Fresh
    /\ ret' = [op |-> "rank", method |-> method, pre |-> self,
               result |-> rank(self, method)]
    /\ UNCHANGED <<self, other>>

RankAxis(axis, method) ==
    /\ Fresh
    /\ ret' = [op |-> "rank_axis", axis |-> axis, method |-> method, pre |-> self,
               result |-> rank_axis(self, axis, method)]
    /\ UNCHANGED <<self, other>>

Discretize(method, buckets) ==
    /\ Fresh
    /\ ret' = [op |-> "discretize", method |-> method, buckets |-> buckets,
               pre |-> self,
               rank_cut_points |-> cuts_built(rank(self, method), buckets),
               result |-> discretize(self, method, buckets)]
    /\ UNCHANGED <<self, other>>

DiscretizeAxis(axis, method, buckets) ==
    /\ Fresh
    /\ ret' = [op |-> "discretize_axis", axis |-> axis, method |-> method,
               buckets |-> buckets, pre |-> self,
               result |-> discretize_axis(self, axis, method, buckets)]
    /\ UNCHANGED <<self, other>>

FillNonFiniteInplace(with) ==
    /\ self' = fill_non_finite_inplace(self, with)
    /\ ret' = [op |-> "fill_non_finite_inplace", with |-> with, pre |-> self]
    /\ UNCHANGED other

CountFinite ==
    /\ ret' = [op |-> "count_finite", pre |-> self, result |-> count_finite(self)]
    /\ UNCHANGED <<self, other>>

CountNonFinite ==
    /\ ret' = [op |-> "count_non_finite", pre |-> self,
               result |-> count_non_finite(self)]
    /\ UNCHANGED <<self, other>>

CountFiniteAxis(axis) ==
    /\ ret' = [op |-> "count_finite_axis", axis |-> axis, pre |-> self,
               result |-> count_finite_axis(self, axis)]
    /\ UNCHANGED <<self, other>>

CountNonFiniteAxis(axis) ==
    /\ ret' = [op |-> "count_non_finite_axis", axis |-> axis, pre |-> self,
               result |-> count_non_finite_axis(self, axis)]
    /\ UNCHANGED <<self, other>>

MaximumWith ==
    /\ ret' = [op |-> "maximum_with", pre |-> self, pre_other |-> other,
               result |-> maximum_with(self, other)]
    /\ UNCHANGED <<self, other>>

MinimumWith ==
    /\ ret' = [op |-> "minimum_with", pre |-> self, pre_other |-> other,
               result |-> minimum_with(self, other)]
    /\ UNCHANGED <<self, other>>

MaximumWithInplace ==
    /\ self' = maximum_with_inplace(self, other)
    /\ ret' = [op |-> "maximum_with_inplace", pre |-> self, pre_other |-> other,
               result |-> self']
    /\ UNCHANGED other

MinimumWithInplace ==
    /\ self' = minimum_with_inplace(self, other)
    /\ ret' = [op |-> "minimum_with_inplace", pre |-> self, pre_other |-> other,
               result |-> self']
    /\ UNCHANGED other

NextRank ==
    \/ \E method \in RankMethod : Rank(method)
    \/ \E axis \in Axes, method \in RankMethod : RankAxis(axis, method)
    \/ \E method \in RankMethod, buckets \in Buckets : Discretize(method, buckets)
    \/ \E axis \in Axes, method \in RankMethod, buckets \in Buckets :
           DiscretizeAxis(axis, method, buckets)

NextFloats ==
    \/ \E with \in FloatValues : FillNonFiniteInplace(with)
    \/ CountFinite
    \/ CountNonFinite
    \/ \E axis \in Axes : CountFiniteAxis(axis)
    \/ \E axis \in Axes : CountNonFiniteAxis(axis)

NextPairwise ==
    \/ MaximumWith
    \/ MinimumWith
    \/ MaximumWithInplace
    \/ MinimumWithInplace

SpecRank == InitRank /\ [][NextRank]_vars
SpecFloats == InitFloats /\ [][NextFloats]_vars
SpecPairwise == InitPairwise /\ [][NextPairwise]_vars

----------------------------------------------------------------------------
(* Properties.  Helpers below restate the expected results from counting   *)
(* and closed forms, not from the loops above.                             *)

Min2(x, y) == IF x < y THEN x ELSE y

\* The elements of c that compare (everything but NaN).
ComparableAt(c) == {j \in DOMAIN c.data : c.data[j] # NaN}

\* r and g of the tie-group of the comparable element at idx.
SmallerCount(c, idx) ==
    Cardinality({j \in ComparableAt(c) : c.data[j] < c.data[idx]})
GroupSize(c, idx) ==
    Cardinality({j \in ComparableAt(c) : c.data[j] = c.data[idx]})

TieRank(c, idx, method) ==
    LET r == 1 + SmallerCount(c, idx)
        g == GroupSize(c, idx)
    IN CASE method = "Minimum" -> r
         [] method = "Maximum" -> r + g - 1
         [] method = "Average" -> r + (g - 1) \div 2

\* C1: rank gives every member of a tie-group the same rank: with r = 1 +
\* the number of comparable elements strictly smaller and g the size of the
\* group, Minimum gives r, Maximum r + g - 1, Average r + floor((g - 1) / 2).
C1_RankTieGroups ==
    ret.op = "rank" =>
        \A idx \in ComparableAt(ret.pre) :
            ret.result.data[idx] = TieRank(ret.pre, idx, ret.method)

\* An Average call with a tie-group of three or more above a smaller element.
C1_Witness ==
    /\ ret.op = "rank"
    /\ ret.method = "Average"
    /\ \E idx \in ComparableAt(ret.pre) :
          /\ GroupSize(ret.pre, idx) >= 3
          /\ SmallerCount(ret.pre, idx) >= 1
          /\ ret.result.data[idx] = 3

\* C2: the output of rank has the index set and shape of its input, an
\* entry is 0 exactly where the input is non-comparable, and every
\* comparable element has a rank in 1 .. number of comparable elements.
C2_RankShapeAndSentinel ==
    ret.op = "rank" =>
        /\ ret.result.shape = ret.pre.shape
        /\ DOMAIN ret.result.data = DOMAIN ret.pre.data
        /\ \A idx \in DOMAIN ret.pre.data :
              (ret.result.data[idx] = 0) <=> (ret.pre.data[idx] = NaN)
        /\ \A idx \in ComparableAt(ret.pre) :
              ret.result.data[idx] \in 1..Cardinality(ComparableAt(ret.pre))

\* A Maximum call on an input with a NaN and a tie reaching the top rank.
C2_Witness ==
    /\ ret.op = "rank"
    /\ ret.method = "Maximum"
    /\ \E idx \in DOMAIN ret.pre.data : ret.pre.data[idx] = NaN
    /\ \E idx \in ComparableAt(ret.pre) :
          /\ GroupSize(ret.pre, idx) >= 2
          /\ ret.result.data[idx] = Cardinality(ComparableAt(ret.pre))

\* C3: rank_axis restricted to the slice fixing coordinate i along axis is
\* rank of that slice, and changing one element never changes the ranks
\* written to any other slice.
C3_RankAxisPerSlice ==
    ret.op = "rank_axis" =>
        /\ ret.result.shape = ret.pre.shape
        /\ \A idx \in DOMAIN ret.pre.data :
              ret.result.data[idx] =
                  rank(index_axis(ret.pre, ret.axis, Along(idx, ret.axis)),
                       ret.method).data[<<Across(idx, ret.axis)>>]
        /\ \A p \in DOMAIN ret.pre.data, v \in RankValues :
              LET changed == rank_axis([ret.pre EXCEPT !.data[p] = v],
                                       ret.axis, ret.method)
              IN \A idx \in DOMAIN ret.pre.data :
                    Along(idx, ret.axis) # Along(p, ret.axis)
                        => changed.data[idx] = ret.result.data[idx]

\* A per-axis call on a 2 x 2 input whose slices rank differently from the
\* whole array.
C3_Witness ==
    /\ ret.op = "rank_axis"
    /\ ret.pre.shape = <<2, 2>>
    /\ ret.result # rank(ret.pre, ret.method)
    /\ \E idx \in DOMAIN ret.pre.data : ret.result.data[idx] = 2

\* C4: on a non-empty container with no comparable element, discretize
\* with buckets >= 1 returns the all-zero output rather than failing.
C4_AllNonComparableReturnsZeros ==
    (/\ ret.op = "discretize"
     /\ DOMAIN ret.pre.data # {}
     /\ ComparableAt(ret.pre) = {})
        => /\ ret.result.ok
           /\ ret.result.value = zeros(ret.pre.shape)

\* C5: discretize maps every element of rank 0 to bucket 0 and every other
\* element to a bucket in 1 .. buckets, for every container.
C5_BucketRange ==
    ret.op = "discretize" =>
        /\ ret.result.ok
        /\ \A idx \in DOMAIN ret.pre.data :
              IF rank(ret.pre, ret.method).data[idx] = 0
              THEN ret.result.value.data[idx] = 0
              ELSE ret.result.value.data[idx] \in 1..ret.buckets

\* The part of C5 the code does keep: whenever discretize returns, its
\* bucket ids are in range.
BucketRangeWhenReturned ==
    (ret.op = "discretize" /\ ret.result.ok) =>
        \A idx \in DOMAIN ret.pre.data :
            IF ret.pre.data[idx] = NaN
            THEN ret.result.value.data[idx] = 0
            ELSE ret.result.value.data[idx] \in 1..ret.buckets

\* max_rank and the effective bucket count of the last discretize call.
MaxRankOf(call) == max_rank(rank(call.pre, call.method))
EffectiveOf(call) ==
    IF MaxRankOf(call) \div call.buckets = 0 THEN MaxRankOf(call) ELSE call.buckets
PerBucketOf(call) ==
    IF MaxRankOf(call) \div call.buckets = 0 THEN 1
    ELSE MaxRankOf(call) \div call.buckets

CutsAtMost(cuts, x) == Cardinality({i \in 1..Len(cuts) : cuts[i] <= x})

\* C6: whenever max_rank >= effective_buckets, every bucket id in
\* 1 .. effective_buckets is the bucket of some rank in 1 .. max_rank, and
\* every cut point is <= max_rank.
C6_NoEmptyBucket ==
    (ret.op = "discretize" /\ DOMAIN ret.pre.data # {}) =>
        LET cuts == ret.rank_cut_points
        IN MaxRankOf(ret) >= EffectiveOf(ret) =>
              /\ Len(cuts) = EffectiveOf(ret)
              /\ \A i \in 1..Len(cuts) : cuts[i] <= MaxRankOf(ret)
              /\ \A k \in 1..EffectiveOf(ret) :
                    \E x \in 1..MaxRankOf(ret) : CutsAtMost(cuts, x) = k

\* A call whose requested count exceeds max_rank (the reduced case), with
\* at least two buckets in use.
C6_Witness ==
    /\ ret.op = "discretize"
    /\ DOMAIN ret.pre.data # {}
    /\ MaxRankOf(ret) >= 2
    /\ MaxRankOf(ret) < ret.buckets
    /\ Len(ret.rank_cut_points) = MaxRankOf(ret)

\* C7 as stated: after fill_non_finite_inplace(c, v), for ANY replacement v,
\* count_non_finite(c) = 0 and every previously finite element is unchanged.
C7_FillAnyReplacement ==
    ret.op = "fill_non_finite_inplace" =>
        /\ count_non_finite(self) = 0
        /\ \A idx \in DOMAIN ret.pre.data :
              ret.pre.data[idx] \in Finite => self.data[idx] = ret.pre.data[idx]

\* C7 amended: every previously finite element is unchanged and every
\* other element becomes v; count_non_finite(c) = 0 when v is finite, and
\* is what it was before when v is not.
C7_FillFiniteReplacement ==
    ret.op = "fill_non_finite_inplace" =>
        /\ self.shape = ret.pre.shape
        /\ \A idx \in DOMAIN ret.pre.data :
              self.data[idx] = IF ret.pre.data[idx] \in Finite
                               THEN ret.pre.data[idx] ELSE ret.with
        /\ ret.with \in Finite => count_non_finite(self) = 0
        /\ ret.with \notin Finite
              => count_non_finite(self) = count_non_finite(ret.pre)

\* A fill with a finite v of an input holding NaN, an infinity and a
\* finite element different from v.
C7_Witness ==
    /\ ret.op = "fill_non_finite_inplace"
    /\ ret.with \in Finite
    /\ \E i, j, k \in DOMAIN ret.pre.data :
          /\ ret.pre.data[i] = NaN
          /\ ret.pre.data[j] \in {PosInf, NegInf}
          /\ ret.pre.data[k] \in Finite \ {ret.with}
    /\ count_non_finite(self) = 0

AxisCounts == {"count_finite_axis", "count_non_finite_axis"}

\* The number of elements of c with coordinate i at position pos (1 or 2)
\* of the index whose finiteness is wanted.
CountWhere(c, pos, i, wanted) ==
    Cardinality({idx \in DOMAIN c.data :
                    idx[pos] = i /\ ((c.data[idx] \in Finite) = wanted)})

\* C8 as stated, on non-empty inputs: the result has the shape of c with the
\* given axis removed
\* (shape (m, n): axis 0 yields n counts, axis 1 yields m counts), each
\* entry the count over the corresponding slice.
C8_AxisRemovedShape ==
    (ret.op \in AxisCounts /\ DOMAIN ret.pre.data # {}) =>
        /\ ret.result.shape = <<ret.pre.shape[2 - ret.axis]>>
        /\ \A j \in 0..(ret.pre.shape[2 - ret.axis] - 1) :
              ret.result.data[<<j>>] =
                  CountWhere(ret.pre, 2 - ret.axis, j, ret.op = "count_finite_axis")

\* C8 amended: the result has one entry per coordinate along the given axis
\* (shape (m, n): axis 0 yields m counts, axis 1 yields n counts), entry i
\* the count over the slice fixing coordinate i along that axis.
C8_AxisLengthShape ==
    ret.op \in AxisCounts =>
        /\ ret.result.shape = <<ret.pre.shape[ret.axis + 1]>>
        /\ \A i \in 0..(ret.pre.shape[ret.axis + 1] - 1) :
              ret.result.data[<<i>>] =
                  CountWhere(ret.pre, ret.axis + 1, i, ret.op = "count_finite_axis")

\* count_finite_axis(Axis(0)) of a 2 x 1 input whose rows count differently.
C8_Witness ==
    /\ ret.op = "count_finite_axis"
    /\ ret.axis = 0
    /\ ret.pre.shape = <<2, 1>>
    /\ ret.result.data[<<0>>] = 1
    /\ ret.result.data[<<1>>] = 0

Le(x, y) == partial_cmp(x, y) \in {"Less", "Equal"}
\* m is the maximum / minimum of x and y under the partial order.
IsMax(m, x, y) == m \in {x, y} /\ Le(x, m) /\ Le(y, m)
IsMin(m, x, y) == m \in {x, y} /\ Le(m, x) /\ Le(m, y)

Maxima == {"maximum_with", "maximum_with_inplace"}
Minima == {"minimum_with", "minimum_with_inplace"}
Returning == {"maximum_with", "minimum_with"}

\* C9 as stated: at every index the result is max(a[i], b[i]), resp.
\* min(a[i], b[i]), under the partial order, also when one of the two is
\* non-comparable; the value-returning forms leave a and b unmodified.
C9_PairwiseMaxMin ==
    ret.op \in Maxima \cup Minima =>
        /\ \A i \in DOMAIN ret.pre.data :
              IF ret.op \in Maxima
              THEN IsMax(ret.result.data[i], ret.pre.data[i], ret.pre_other.data[i])
              ELSE IsMin(ret.result.data[i], ret.pre.data[i], ret.pre_other.data[i])
        /\ ret.op \in Returning => self = ret.pre /\ other = ret.pre_other

\* C9 amended: where a[i] and b[i] compare the result is their maximum,
\* resp. minimum; where they do not (one is NaN) the result is a[i], the
\* receiver's element.  The value-returning forms leave a and b unmodified,
\* the in-place forms leave the result in a and b unmodified.
C9_PairwiseComparable ==
    ret.op \in Maxima \cup Minima =>
        /\ ret.result.shape = ret.pre.shape
        /\ \A i \in DOMAIN ret.pre.data :
              LET x == ret.pre.data[i]
                  y == ret.pre_other.data[i]
              IN IF x = NaN \/ y = NaN THEN ret.result.data[i] = x
                 ELSE IF ret.op \in Maxima THEN IsMax(ret.result.data[i], x, y)
                 ELSE IsMin(ret.result.data[i], x, y)
        /\ other = ret.pre_other
        /\ self = IF ret.op \in Returning THEN ret.pre ELSE ret.result

\* maximum_with where the receiver holds NaN against a number at one index
\* and a smaller number at another.
C9_Witness ==
    /\ ret.op = "maximum_with"
    /\ \E i, j \in DOMAIN ret.pre.data :
          /\ ret.pre.data[i] = NaN
          /\ ret.pre_other.data[i] # NaN
          /\ ret.result.data[i] = NaN
          /\ ret.pre.data[j] # NaN
          /\ ret.pre_other.data[j] # NaN
          /\ ret.pre.data[j] < ret.pre_other.data[j]
          /\ ret.result.data[j] = ret.pre_other.data[j]

\* cut[i] (i = 1 ..) when the first rem buckets have width per + 1 and the
\* others width per: cut[1] = 1, cut[i] = cut[i-1] + width(i-1).
ExpectedCuts(count, per, rem) ==
    [i \in 1..count |-> 1 + (i - 1) * per + Min2(i - 1, rem)]

BucketsFollow(call, cuts) ==
    \A idx \in DOMAIN call.pre.data :
        call.result.value.data[idx] =
            CutsAtMost(cuts, rank(call.pre, call.method).data[idx])

\* C10 as stated, on the calls that return: the remainder is max_rank mod
\* the REQUESTED bucket count; the first remainder buckets have width
\* ranks_per_bucket + 1, the rest ranks_per_bucket; a rank is assigned the
\* number of cut points <= it.
C10_RemainderOfRequested ==
    (ret.op = "discretize" /\ DOMAIN ret.pre.data # {} /\ ret.result.ok) =>
        LET rem == MaxRankOf(ret) % ret.buckets
            cuts == ExpectedCuts(EffectiveOf(ret), PerBucketOf(ret), rem)
        IN /\ ret.rank_cut_points = cuts
           /\ BucketsFollow(ret, cuts)

\* C10 amended: the remainder is max_rank mod the EFFECTIVE bucket count
\* (so it is 0 whenever the count was reduced, and the division panics when
\* max_rank = 0); widths, cut points and bucket assignment as stated.
C10_RemainderOfEffective ==
    (ret.op = "discretize" /\ DOMAIN ret.pre.data # {}) =>
        IF MaxRankOf(ret) = 0 THEN ~ret.result.ok
        ELSE LET rem == MaxRankOf(ret) % EffectiveOf(ret)
                 cuts == ExpectedCuts(EffectiveOf(ret), PerBucketOf(ret), rem)
             IN /\ ret.result.ok
                /\ ret.rank_cut_points = cuts
                /\ BucketsFollow(ret, cuts)

\* A call with a non-zero remainder and more than one rank per bucket.
C10_Witness ==
    /\ ret.op = "discretize"
    /\ DOMAIN ret.pre.data # {}
    /\ ret.result.ok
    /\ MaxRankOf(ret) % ret.buckets = 1
    /\ ret.rank_cut_points = <<1, 3>>
    /\ \E idx \in DOMAIN ret.pre.data : ret.result.value.data[idx] = 2

====
